---- MODULE Spec2Model ----
(***************************************************************************)
(* Model of src/app.py: the AQL inspection report extractor.               *)
(*                                                                         *)
(* Text is modelled by TLA+ strings, character by character: every str     *)
(* method and every regular expression of the source is an operator that   *)
(* computes what the Python computes on ASCII text.  A dict is an          *)
(* insertion-ordered sequence of <<key, value>> pairs.  None is <<>> and a *)
(* present optional value x is <<x>>.                                      *)
(***************************************************************************)
EXTENDS Integers, Sequences, FiniteSets, TLC

VARIABLES uploaded_files, idx, all_data, errors, pc, calls, last, columns, debug_i

vars == <<uploaded_files, idx, all_data, errors, pc, calls, last, columns, debug_i>>

(***************************************************************************)
(* Characters and str methods                                              *)
(***************************************************************************)
Digits == {"0", "1", "2", "3", "4", "5", "6", "7", "8", "9"}

UpperCase == "ABCDEFGHIJKLMNOPQRSTUVWXYZ"

LowerCase == "abcdefghijklmnopqrstuvwxyz"

Letters == {SubSeq(UpperCase, i, i) : i \in 1..Len(UpperCase)}
             \cup {SubSeq(LowerCase, i, i) : i \in 1..Len(LowerCase)}

\* what str.strip() removes and \s matches among the ASCII characters: the
\* space, \t, \n, \r, \f and the control characters 0x0B (vertical tab),
\* 0x1C, 0x1D, 0x1E and 0x1F, which the last five strings hold as they are
Whitespace == {" ", "\t", "\n", "\r", "\f", "", "", "", "", ""}

Min(S) == CHOOSE x \in S : \A y \in S : x <= y

Ch(s, i) == SubSeq(s, i, i)

\* s[a:b] with 0-based a and b, 0 <= a, b <= len(s)
Slice(s, a, b) == SubSeq(s, a + 1, b)

\* s[a:]
SliceFrom(s, a) == SubSeq(s, a + 1, Len(s))

\* the lowest 1-based position p >= i with sub at p, or 0
FindFrom(s, sub, i) ==
    LET n      == Len(sub)
        m      == Len(s) - n + 1
        hit(p) == SubSeq(s, p, p + n - 1) = sub
    IN  IF \E p \in i..m : hit(p)
        THEN CHOOSE p \in i..m : hit(p) /\ \A q \in i..(p - 1) : ~hit(q)
        ELSE 0

\* s.find(sub): the lowest 0-based index, or -1
Find(s, sub) == FindFrom(s, sub, 1) - 1

\* sub in s
In(sub, s) == \E p \in 1..(Len(s) - Len(sub) + 1) : SubSeq(s, p, p + Len(sub) - 1) = sub

\* the lowest position p >= i whose character is in C (outside C when
\* inside is FALSE), or Len(s) + 1
ScanRight(s, i, C, inside) ==
    LET hit(p) == (Ch(s, p) \in C) = inside
    IN  IF \E p \in i..Len(s) : hit(p)
        THEN CHOOSE p \in i..Len(s) : hit(p) /\ \A q \in i..(p - 1) : ~hit(q)
        ELSE Len(s) + 1

\* the highest position p <= i whose character is not in C, or 0
ScanLeft(s, i, C) ==
    LET hit(p) == Ch(s, p) \notin C
    IN  IF \E p \in 1..i : hit(p)
        THEN CHOOSE p \in 1..i : hit(p) /\ \A q \in (p + 1)..i : ~hit(q)
        ELSE 0

\* s.strip()
Strip(s) == SubSeq(s, ScanRight(s, 1, Whitespace, FALSE), ScanLeft(s, Len(s), Whitespace))

\* s.split(sep) for a one-character sep
RECURSIVE Split(_, _)
Split(s, sep) ==
    LET p == Find(s, sep)
    IN  IF p = -1 THEN <<s>>
        ELSE <<Slice(s, 0, p)>> \o Split(SliceFrom(s, p + 1), sep)

\* ''.join(parts)
RECURSIVE Concat(_)
Concat(parts) == IF parts = <<>> THEN "" ELSE Head(parts) \o Concat(Tail(parts))

\* s.replace(' ', ''): what is left between the spaces
RemoveSpaces(s) == Concat(Split(s, " "))

LowerCh(c) ==
    IF \E i \in 1..Len(UpperCase) : Ch(UpperCase, i) = c
    THEN Ch(LowerCase, CHOOSE i \in 1..Len(UpperCase) : Ch(UpperCase, i) = c)
    ELSE c

\* s.lower()
RECURSIVE Lower(_)
Lower(s) == IF s = "" THEN "" ELSE LowerCh(Ch(s, 1)) \o Lower(SliceFrom(s, 1))

(***************************************************************************)
(* Regular expressions.  A match object is <<>> (None) or                  *)
(* <<[g |-> group(1), e |-> end()]>> with a 0-based end.                   *)
(***************************************************************************)
\* the 1-based position of the last character of the run of C starting at i
RunEnd(s, i, C) == ScanRight(s, i, C, FALSE) - 1

\* the first position at or after i that is not whitespace: \s*
SkipWs(s, i) == ScanRight(s, i, Whitespace, FALSE)

\* re.findall(r'([C]+)', s)
RECURSIVE RunsFrom(_, _, _)
RunsFrom(s, i, C) ==
    LET b == ScanRight(s, i, C, TRUE)
    IN  IF b > Len(s) THEN <<>>
        ELSE LET e == RunEnd(s, b, C)
             IN  <<SubSeq(s, b, e)>> \o RunsFrom(s, e + 1, C)

FindAllRuns(s, C) == RunsFrom(s, 1, C)

\* re.search(r'([C]+)', s)
SearchRun(s, C) ==
    LET b == ScanRight(s, 1, C, TRUE)
    IN  IF b > Len(s) THEN <<>>
        ELSE LET e == RunEnd(s, b, C)
             IN  <<[g |-> SubSeq(s, b, e), e |-> e]>>

\* re.search(label + r'\s*([C]+)', s), label a literal
RECURSIVE LabelRunFrom(_, _, _, _)
LabelRunFrom(s, label, C, i) ==
    LET p == FindFrom(s, label, i)
        b == SkipWs(s, p + Len(label))
    IN  IF p = 0 THEN <<>>
        ELSE IF b <= Len(s) /\ Ch(s, b) \in C
             THEN <<[g |-> SubSeq(s, b, RunEnd(s, b, C)), e |-> RunEnd(s, b, C)]>>
             ELSE LabelRunFrom(s, label, C, p + 1)

SearchLabelRun(s, label, C) == LabelRunFrom(s, label, C, 1)

AllIn(s, a, b, C) == b <= Len(s) /\ \A k \in a..b : Ch(s, k) \in C

\* [A-Za-z]{3}\s+\d{1,2},\s+\d{2} matched at the 1-based position q:
\* the position of the last character matched, or 0
DateEnd(s, q) ==
    IF ~AllIn(s, q, q + 2, Letters) THEN 0
    ELSE LET d == SkipWs(s, q + 3)
         IN  IF d = q + 3 \/ d > Len(s) \/ Ch(s, d) \notin Digits THEN 0
             ELSE LET c == IF AllIn(s, d + 1, d + 1, Digits) THEN d + 2 ELSE d + 1
                  IN  IF c > Len(s) \/ Ch(s, c) # "," THEN 0
                      ELSE LET y == SkipWs(s, c + 1)
                           IN  IF y = c + 1 \/ ~AllIn(s, y, y + 1, Digits) THEN 0
                               ELSE y + 1

\* re.search(r'Inspection Date\s*([A-Za-z]{3}\s+\d{1,2},\s+\d{2})', s)
RECURSIVE DateFrom(_, _)
DateFrom(s, i) ==
    LET p == FindFrom(s, "Inspection Date", i)
        b == SkipWs(s, p + Len("Inspection Date"))
    IN  IF p = 0 THEN <<>>
        ELSE IF DateEnd(s, b) # 0
             THEN <<[g |-> SubSeq(s, b, DateEnd(s, b)), e |-> DateEnd(s, b)]>>
             ELSE DateFrom(s, p + 1)

SearchDate(s) == DateFrom(s, 1)

\* re.search(r'(\d{6})', s)
SearchSixDigits(s) ==
    LET hit(p) == AllIn(s, p, p + 5, Digits)
    IN  IF \E p \in 1..Len(s) : hit(p)
        THEN LET b == CHOOSE p \in 1..Len(s) : hit(p) /\ \A q \in 1..(p - 1) : ~hit(q)
             IN  <<[g |-> SubSeq(s, b, b + 5), e |-> b + 5]>>
        ELSE <<>>

\* re.search(r'(\d{3})$', s) on a string without a newline
SearchThreeDigitsAtEnd(s) ==
    IF Len(s) >= 3 /\ AllIn(s, Len(s) - 2, Len(s), Digits)
    THEN <<[g |-> SubSeq(s, Len(s) - 2, Len(s)), e |-> Len(s)]>>
    ELSE <<>>

\* re.sub(r'\([^)]*\)', '', s)
RECURSIVE RemoveParens(_)
RemoveParens(s) ==
    LET open  == FindFrom(s, "(", 1)
        close == FindFrom(s, ")", open + 1)
    IN  IF open = 0 \/ close = 0 THEN s
        ELSE SubSeq(s, 1, open - 1) \o RemoveParens(SubSeq(s, close + 1, Len(s)))

\* re.sub(r'[,\s]+$', '', s) on a string without a final newline
CommaOrSpace == Whitespace \cup {","}

StripTrailingCommas(s) == SubSeq(s, 1, ScanLeft(s, Len(s), CommaOrSpace))

(***************************************************************************)
(* dict                                                                    *)
(***************************************************************************)
Keys(d) == [i \in 1..Len(d) |-> d[i][1]]

Has(d, k) == \E i \in 1..Len(d) : d[i][1] = k

Get(d, k) == d[CHOOSE i \in 1..Len(d) : d[i][1] = k][2]

\* d[k] = v
Put(d, k, v) ==
    IF Has(d, k)
    THEN [i \in 1..Len(d) |-> IF d[i][1] = k THEN <<k, v>> ELSE d[i]]
    ELSE Append(d, <<k, v>>)

(***************************************************************************)
(* extract_fields_from_pdf                                                 *)
(*                                                                         *)
(* A pdf_file is [name, exc, pages]: exc is <<msg>> when pdfplumber.open   *)
(* raises on it; a page is [exc, text], exc <<msg>> when extract_text      *)
(* raises on it and text <<>> when extract_text returns None.              *)
(***************************************************************************)
Alnum == Letters \cup Digits

\* [A-Za-z0-9\-]
InspectionNoChars == Alnum \cup {"-"}

\* [\d\.]
DeptChars == Digits \cup {"."}

NoTextMessage == "No text content extracted. Please ensure PDF is text-based (not scanned)."

PreviewLen == 1000

\* lines 76-80: [exc |-> the exception raised, full_text |-> the text read]
RECURSIVE ReadPages(_, _)
ReadPages(pages, full_text) ==
    IF pages = <<>> THEN [exc |-> <<>>, full_text |-> full_text]
    ELSE LET page == Head(pages)
         IN  IF page.exc # <<>> THEN [exc |-> page.exc, full_text |-> full_text]
             ELSE IF page.text # <<>> /\ page.text[1] # ""
                  THEN ReadPages(Tail(pages), full_text \o page.text[1] \o "\n")
                  ELSE ReadPages(Tail(pages), full_text)

\* SplitLines without the "if line.strip()" filter
RECURSIVE StripAll(_)
StripAll(raw) ==
    IF raw = <<>> THEN <<>> ELSE <<Strip(Head(raw))>> \o StripAll(Tail(raw))

SplitLinesKeepBlank(full_text) == StripAll(Split(full_text, "\n"))

\* line 83
RECURSIVE StripNonEmpty(_)
StripNonEmpty(raw) ==
    IF raw = <<>> THEN <<>>
    ELSE LET line == Strip(Head(raw))
         IN  (IF line # "" THEN <<line>> ELSE <<>>) \o StripNonEmpty(Tail(raw))

SplitLines(full_text) == StripNonEmpty(Split(full_text, "\n"))

\* for i, line in enumerate(lines): if <test>: ...; break
\* the 1-based index of the first line passing the test, or 0; hits is the
\* set of the indices of the lines that pass it
FirstLine(hits) == IF hits = {} THEN 0 ELSE Min(hits)

\* lines 92-97
InspectionNo(lines, data) ==
    LET a == FirstLine({i \in 1..Len(lines) : In("Inspection No.", lines[i])})
    IN  IF a = 0 THEN data
        ELSE LET match == SearchLabelRun(lines[a], "Inspection No.", InspectionNoChars)
             IN  IF match # <<>> THEN Put(data, "Inspection No.", match[1].g) ELSE data

\* InspectionSeq without lines 107-108
InspectionSeqNoDefault(lines, data) ==
    LET a == FirstLine({i \in 1..Len(lines) : In("Inspection Seq.", lines[i])})
    IN  IF a = 0 THEN data
        ELSE LET match == SearchLabelRun(lines[a], "Inspection Seq.", Digits)
             IN  IF match # <<>> THEN Put(data, "Inspection Seq.", match[1].g)
                 ELSE data

\* lines 100-108
InspectionSeq(lines, data) ==
    LET a == FirstLine({i \in 1..Len(lines) : In("Inspection Seq.", lines[i])})
        found ==
            IF a = 0 THEN data
            ELSE LET match == SearchLabelRun(lines[a], "Inspection Seq.", Digits)
                 IN  IF match # <<>> THEN Put(data, "Inspection Seq.", match[1].g)
                     ELSE data
    IN  IF ~Has(found, "Inspection Seq.") THEN Put(found, "Inspection Seq.", "1")
        ELSE found

\* lines 111-116
InspectionDate(lines, data) ==
    LET a == FirstLine({i \in 1..Len(lines) : In("Inspection Date", lines[i])})
    IN  IF a = 0 THEN data
        ELSE LET match == SearchDate(lines[a])
             IN  IF match # <<>> THEN Put(data, "Inspection Date", match[1].g) ELSE data

\* lines 119-126
POSplitNo(lines, data) ==
    LET a == FirstLine({i \in 1..Len(lines) : In("PO / Split No.", lines[i])})
    IN  IF a = 0 \/ a + 1 > Len(lines) THEN data
        ELSE LET match == SearchRun(lines[a + 1], Digits)
             IN  IF match # <<>> THEN Put(data, "PO / Split No.", match[1].g) ELSE data

\* StyleItemNo with the break of line 137 under "if len(matches) >= 2": the
\* first header line with a row of two tokens is used
StyleItemNoRescan(lines, data) ==
    LET a == FirstLine({i \in 1..Len(lines) :
                           /\ In("Style No.", lines[i]) /\ In("Item No.", lines[i])
                           /\ i + 1 <= Len(lines)
                           /\ Len(FindAllRuns(lines[i + 1], Alnum)) >= 2})
    IN  IF a = 0 THEN data
        ELSE LET matches == FindAllRuns(lines[a + 1], Alnum)
             IN  Put(Put(data, "Style No.", matches[1]), "Item No.", matches[2])

\* lines 129-137
StyleItemNo(lines, data) ==
    LET a == FirstLine({i \in 1..Len(lines) :
                           In("Style No.", lines[i]) /\ In("Item No.", lines[i])})
    IN  IF a = 0 \/ a + 1 > Len(lines) THEN data
        ELSE LET matches == FindAllRuns(lines[a + 1], Alnum)
             IN  IF Len(matches) >= 2
                 THEN Put(Put(data, "Style No.", matches[1]), "Item No.", matches[2])
                 ELSE data

\* lines 140-148
DeliveredQuantity(lines, data) ==
    LET a == FirstLine({i \in 1..Len(lines) :
                           \/ In("Delivered Quantity", lines[i])
                           \/ In("Delivered Qty.", lines[i])})
    IN  IF a = 0 \/ a + 1 > Len(lines) THEN data
        ELSE LET clean_line == RemoveParens(lines[a + 1])
                 numbers    == FindAllRuns(clean_line, Digits)
             IN  IF Len(numbers) >= 2 THEN Put(data, "Delivered Quantity", numbers[2])
                 ELSE data

\* lines 192-198: the first part between slashes that holds six digits
RECURSIVE FidInParts(_)
FidInParts(parts) ==
    IF parts = <<>> THEN <<>>
    ELSE IF SearchSixDigits(Head(parts)) # <<>> THEN SearchSixDigits(Head(parts))
         ELSE FidInParts(Tail(parts))

\* lines 202-206: the first of lines[j], j from lo to hi, that holds six digits
RECURSIVE FidInLines(_, _, _)
FidInLines(lines, lo, hi) ==
    IF lo > hi THEN <<>>
    ELSE IF SearchSixDigits(lines[lo]) # <<>> THEN SearchSixDigits(lines[lo])
         ELSE FidInLines(lines, lo + 1, hi)

\* lines 174-184: [name |-> factory_name, end_pos |-> end_pos]
FactoryName(after_dept) ==
    LET next_slash   == Find(after_dept, "/")
        factory_word == Find(Lower(after_dept), "factory")
        e0           == Len(after_dept)
        e1           == IF next_slash # -1 THEN Min({e0, next_slash}) ELSE e0
        end_pos      == IF factory_word # -1 THEN Min({e1, factory_word}) ELSE e1
    IN  [name    |-> StripTrailingCommas(Strip(Slice(after_dept, 0, end_pos))),
         end_pos |-> end_pos]

\* lines 190-206, a the 1-based index of the anchor line
FidCode(lines, a, data, after_dept, end_pos) ==
    LET remaining_after_factory == Strip(SliceFrom(after_dept, end_pos))
        inline == IF In("/", remaining_after_factory)
                  THEN FidInParts(Split(remaining_after_factory, "/"))
                  ELSE <<>>
        d1     == IF inline # <<>> THEN Put(data, "FID Code", inline[1].g) ELSE data
    IN  IF ~Has(d1, "FID Code")
        THEN LET below == FidInLines(lines, a + 2, Min({a + 5, Len(lines)}))
             IN  IF below # <<>> THEN Put(d1, "FID Code", below[1].g) ELSE d1
        ELSE d1

\* lines 166-206
DeptFactoryFid(lines, a, data, remaining) ==
    LET dept_match == SearchRun(remaining, DeptChars)
    IN  IF dept_match = <<>> THEN data
        ELSE LET after_dept == Strip(SliceFrom(remaining, dept_match[1].e))
                 f          == FactoryName(after_dept)
                 d1         == Put(Put(data, "Dept", dept_match[1].g), "Factory", f.name)
             IN  FidCode(lines, a, d1, after_dept, f.end_pos)

\* lines 151-207
CustomerDeptFactory(lines, data) ==
    LET a == FirstLine({i \in 1..Len(lines) :
                           In("Customer / Dept", lines[i]) /\ In("Factory", lines[i])})
    IN  IF a = 0 \/ a + 1 > Len(lines) THEN data
        ELSE LET next_line   == lines[a + 1]
                 first_slash == Find(next_line, "/")
             IN  IF first_slash = -1 THEN data
                 ELSE DeptFactoryFid(lines, a,
                          Put(data, "Customer", Strip(Slice(next_line, 0, first_slash))),
                          Strip(SliceFrom(next_line, first_slash + 1)))

\* lines 210-219
Vendor(lines, data) ==
    LET a == FirstLine({i \in 1..Len(lines) :
                           /\ In("Vendor", lines[i])
                           /\ In("Vendor No.", lines[i]) \/ In("Vendor No", lines[i])})
    IN  IF a = 0 \/ a + 1 > Len(lines) THEN data
        ELSE LET next_line == lines[a + 1]
             IN  IF In("/", next_line)
                 THEN Put(data, "Vendor", Strip(Split(next_line, "/")[1]))
                 ELSE Put(data, "Vendor", Strip(next_line))

\* QualityDigitAnchor without the [-3:] of line 231
QualityDigitAnchorWholeNumber(lines, data) ==
    LET a == FirstLine({i \in 1..Len(lines) : In("Quality Digit", lines[i])})
    IN  IF a = 0 \/ a + 1 > Len(lines) THEN data
        ELSE LET clean_line == RemoveSpaces(lines[a + 1])
                 numbers    == FindAllRuns(clean_line, Digits)
             IN  IF numbers # <<>> /\ Len(numbers[Len(numbers)]) >= 3
                 THEN Put(data, "Quality Digit", numbers[Len(numbers)])
                 ELSE data

\* lines 222-232
QualityDigitAnchor(lines, data) ==
    LET a == FirstLine({i \in 1..Len(lines) : In("Quality Digit", lines[i])})
    IN  IF a = 0 \/ a + 1 > Len(lines) THEN data
        ELSE LET clean_line == RemoveSpaces(lines[a + 1])
                 numbers    == FindAllRuns(clean_line, Digits)
             IN  IF numbers # <<>> /\ Len(numbers[Len(numbers)]) >= 3
                 THEN LET last_number == numbers[Len(numbers)]
                      IN  Put(data, "Quality Digit",
                              SliceFrom(last_number, Len(last_number) - 3))
                 ELSE data

\* lines 235-242: the break is under "if match", so the scan goes on to the
\* first line containing "AQL" on which the pattern matches
QualityDigitAQL(lines, data) ==
    IF Has(data, "Quality Digit") THEN data
    ELSE LET a == FirstLine({i \in 1..Len(lines) :
                                /\ In("AQL", lines[i])
                                /\ SearchThreeDigitsAtEnd(RemoveSpaces(lines[i])) # <<>>})
         IN  IF a = 0 THEN data
             ELSE Put(data, "Quality Digit",
                      SearchThreeDigitsAtEnd(RemoveSpaces(lines[a]))[1].g)

\* QualityDigitDefault without lines 245-246
QualityDigitDefaultSkipped(data) == data

\* QualityDigitDefault with an empty default
QualityDigitDefaultEmpty(data) ==
    IF ~Has(data, "Quality Digit") THEN Put(data, "Quality Digit", "") ELSE data

\* lines 245-246
QualityDigitDefault(data) ==
    IF ~Has(data, "Quality Digit") THEN Put(data, "Quality Digit", "753") ELSE data

\* lines 89-246
ExtractData(name, lines) ==
    LET d0  == <<<<"File Name", name>>>>
        d1  == InspectionNo(lines, d0)
        d2  == InspectionSeq(lines, d1)
        d3  == InspectionDate(lines, d2)
        d4  == POSplitNo(lines, d3)
        d5  == StyleItemNo(lines, d4)
        d6  == DeliveredQuantity(lines, d5)
        d7  == CustomerDeptFactory(lines, d6)
        d8  == Vendor(lines, d7)
        d9  == QualityDigitAnchor(lines, d8)
        d10 == QualityDigitAQL(lines, d9)
    IN  QualityDigitDefault(d10)

\* lines 250-251
ExtractionError(msg) ==
    [data |-> <<>>, error |-> <<"Error during extraction: " \o msg>>, text |-> ""]

\* lines 72-251: the local variable lines (<<>> when an exception is raised
\* before it is set) and the returned (data_dict, error_message, extracted_text)
ExtractLocals(pdf_file) ==
    IF pdf_file.exc # <<>>
    THEN [lines |-> <<>>, ret |-> ExtractionError(pdf_file.exc[1])]
    ELSE LET r == ReadPages(pdf_file.pages, "")
         IN  IF r.exc # <<>> THEN [lines |-> <<>>, ret |-> ExtractionError(r.exc[1])]
             ELSE LET lines == SplitLines(r.full_text)
                  IN  [lines |-> lines,
                       ret   |-> IF lines = <<>>
                                 THEN [data |-> <<>>, error |-> <<NoTextMessage>>,
                                       text |-> ""]
                                 ELSE [data  |-> ExtractData(pdf_file.name, lines),
                                       error |-> <<>>,
                                       text  |-> Slice(r.full_text, 0,
                                                     Min({PreviewLen, Len(r.full_text)}))]]

\* lines 67-251
extract_fields_from_pdf(pdf_file) == ExtractLocals(pdf_file).ret

(***************************************************************************)
(* create_excel_file                                                       *)
(***************************************************************************)
\* lines 293-298
required_fields ==
    <<"File Name", "Inspection No.", "Inspection Seq.", "Inspection Date",
      "PO / Split No.", "Style No.", "Item No.",
      "Delivered Quantity", "Customer", "Dept", "Factory",
      "FID Code", "Vendor", "Quality Digit">>

\* lines 302-304 for one dict
RECURSIVE FillMissing(_, _)
FillMissing(data, fields) ==
    IF fields = <<>> THEN data
    ELSE FillMissing(IF ~Has(data, Head(fields)) THEN Put(data, Head(fields), "")
                      ELSE data,
                     Tail(fields))

\* pd.DataFrame(list of dicts).columns: the keys in the order in which they
\* first appear, row after row
RECURSIVE DataFrameColumns(_, _)
DataFrameColumns(rows, cols) ==
    IF rows = <<>> THEN cols
    ELSE LET r     == Head(rows)
             fresh == SelectSeq(Keys(r), LAMBDA k : \A i \in 1..Len(cols) : cols[i] # k)
         IN  DataFrameColumns(Tail(rows), cols \o fresh)

\* df[fields].columns: <<fields>>, or <<>> for the KeyError of a missing column
SelectColumns(cols, fields) ==
    IF \A i \in 1..Len(fields) : \E j \in 1..Len(cols) : cols[j] = fields[i]
    THEN <<fields>> ELSE <<>>

\* create_excel_file without line 308
create_excel_file_NoSelect(data_list) ==
    IF data_list = <<>> THEN [all_data |-> data_list, columns |-> <<>>]
    ELSE LET filled == [i \in 1..Len(data_list) |->
                            FillMissing(data_list[i], required_fields)]
         IN  [all_data |-> filled, columns |-> <<DataFrameColumns(filled, <<>>)>>]

\* lines 285-308: the dicts as the function leaves them (it fills them in
\* place) and the columns of the sheet, <<>> when no sheet is made
create_excel_file(data_list) ==
    IF data_list = <<>> THEN [all_data |-> data_list, columns |-> <<>>]
    ELSE LET filled == [i \in 1..Len(data_list) |->
                            FillMissing(data_list[i], required_fields)]
             df     == DataFrameColumns(filled, <<>>)
         IN  [all_data |-> filled, columns |-> SelectColumns(df, required_fields)]

(***************************************************************************)
(* process_multiple_pdfs and the main script                               *)
(*                                                                         *)
(* pc is "loop" inside the for loop of process_multiple_pdfs, "returned"   *)
(* once it has returned, and "excel" after create_excel_file.  idx counts  *)
(* the iterations done and debug_i those of the debug panel's loop.  calls *)
(* and last are history: the files given to extract_fields_from_pdf so     *)
(* far, and the lines and the return value of the latest call.             *)
(***************************************************************************)
\* if error: (line 274) for an Optional[str]
Truthy(error) == error # <<>> /\ error[1] # ""

\* ProcessFile with a break after a failed file
ProcessFileStopOnError ==
    /\ pc = "loop"
    /\ idx < Len(uploaded_files)
    /\ \E locals \in {ExtractLocals(uploaded_files[idx + 1])} :
          /\ IF Truthy(locals.ret.error)
             THEN /\ errors' = Append(errors, uploaded_files[idx + 1].name \o ": "
                                                 \o locals.ret.error[1])
                  /\ idx' = Len(uploaded_files)
                  /\ UNCHANGED all_data
             ELSE /\ all_data' = Append(all_data, locals.ret.data)
                  /\ idx' = idx + 1
                  /\ UNCHANGED errors
          /\ last' = <<[idx |-> idx + 1, lines |-> locals.lines, ret |-> locals.ret]>>
    /\ calls' = Append(calls, idx + 1)
    /\ UNCHANGED <<uploaded_files, pc, columns, debug_i>>

\* ProcessFile with the record put in front of all_data
ProcessFilePrepend ==
    /\ pc = "loop"
    /\ idx < Len(uploaded_files)
    /\ \E locals \in {ExtractLocals(uploaded_files[idx + 1])} :
          /\ IF Truthy(locals.ret.error)
             THEN /\ errors' = Append(errors, uploaded_files[idx + 1].name \o ": "
                                                 \o locals.ret.error[1])
                  /\ UNCHANGED all_data
             ELSE /\ all_data' = <<locals.ret.data>> \o all_data
                  /\ UNCHANGED errors
          /\ last' = <<[idx |-> idx + 1, lines |-> locals.lines, ret |-> locals.ret]>>
    /\ calls' = Append(calls, idx + 1)
    /\ idx' = idx + 1
    /\ UNCHANGED <<uploaded_files, pc, columns, debug_i>>

\* lines 265-277: one iteration of the loop
ProcessFile ==
    /\ pc = "loop"
    /\ idx < Len(uploaded_files)
    /\ \E locals \in {ExtractLocals(uploaded_files[idx + 1])} :
          /\ IF Truthy(locals.ret.error)
             THEN /\ errors' = Append(errors, uploaded_files[idx + 1].name \o ": "
                                                 \o locals.ret.error[1])
                  /\ UNCHANGED all_data
             ELSE /\ all_data' = Append(all_data, locals.ret.data)
                  /\ UNCHANGED errors
          /\ last' = <<[idx |-> idx + 1, lines |-> locals.lines, ret |-> locals.ret]>>
    /\ calls' = Append(calls, idx + 1)
    /\ idx' = idx + 1
    /\ UNCHANGED <<uploaded_files, pc, columns, debug_i>>

\* lines 279-283
Return ==
    /\ pc = "loop"
    /\ idx = Len(uploaded_files)
    /\ pc' = "returned"
    /\ UNCHANGED <<uploaded_files, idx, all_data, errors, calls, last, columns, debug_i>>

\* lines 367 and 395: the script makes the sheet when there is a record
CreateExcel ==
    /\ pc = "returned"
    /\ all_data # <<>>
    /\ LET x == create_excel_file(all_data)
       IN  /\ all_data' = x.all_data
           /\ columns' = x.columns
    /\ pc' = "excel"
    /\ UNCHANGED <<uploaded_files, idx, errors, calls, last, debug_i>>

\* line 456: uploaded_files[:3]
DebugLimit == 3

\* lines 456-459: after the sheet, the debug panel extracts each of the
\* first DebugLimit files again, from the start of the file, and shows the
\* text preview; all_data and errors are not touched
DebugPreview ==
    /\ pc = "excel"
    /\ debug_i < Min({DebugLimit, Len(uploaded_files)})
    /\ \E locals \in {ExtractLocals(uploaded_files[debug_i + 1])} :
          last' = <<[idx |-> debug_i + 1, lines |-> locals.lines, ret |-> locals.ret]>>
    /\ calls' = Append(calls, debug_i + 1)
    /\ debug_i' = debug_i + 1
    /\ UNCHANGED <<uploaded_files, idx, all_data, errors, pc, columns>>

Next == ProcessFile \/ Return \/ CreateExcel \/ DebugPreview

(***************************************************************************)
(* Inputs                                                                  *)
(***************************************************************************)
MaxFiles == 3

MaxLines == 3

MaxRecords == 2

MaxKeys == 2

Page(text) == [exc |-> <<>>, text |-> <<text>>]

NonePage == [exc |-> <<>>, text |-> <<>>]

RaisingPage(msg) == [exc |-> <<msg>>, text |-> <<>>]

\* what a batch holds: [exc, pages] of a file
ContentPool ==
    { [exc |-> <<"No /Root object! - Is this really a PDF?">>, pages |-> <<>>],
      [exc |-> <<"">>, pages |-> <<>>],
      [exc |-> <<>>, pages |-> <<>>],
      [exc |-> <<>>, pages |-> <<NonePage, Page("")>>],
      [exc |-> <<>>, pages |-> <<Page(" \n\t \n"), NonePage, Page("  ")>>],
      [exc |-> <<>>, pages |-> <<Page("Inspection Seq. 3"), RaisingPage("bad page")>>],
      [exc |-> <<>>, pages |-> <<Page("AQL Inspection Report")>>],
      [exc |-> <<>>,
       pages |-> <<Page(" Inspection No. QCR2502-039619 \n\n Inspection Seq. 2"),
                   NonePage,
                   Page("Quality Digit\n8 651")>>] }

FileName(i) == "report" \o Ch("123456789", i) \o ".pdf"

Batches ==
    UNION { [1..n -> ContentPool] : n \in 0..MaxFiles }

MakeFiles(batch) ==
    [i \in 1..Len(batch) |->
        [name |-> FileName(i), exc |-> batch[i].exc, pages |-> batch[i].pages]]

\* the lines a one-page document is written from
LinePool ==
    { "Inspection No. QCR2502-039619 Inspection Seq.2 Inspection Date Sep23, 25",
      "Inspection No. / Inspection Seq. / Inspection Date",
      "PO / Split No. Style No. Item No. Delivered Qty. Vendor / Vendor No.",
      "43145156 906730",
      "43145156",
      "Customer / Dept Factory / FID Code",
      "ACME CO / 43.1 FACTORY NAME / 028288",
      "BON PRIX / 43.1 NANTONG CO.,LTD",
      "ACME / NANTONG",
      "Quality Digit",
      "AQL 2.5 651",
      "AQL Inspection Report" }

\* the header lines of the two tables
TableHeaders ==
    { "PO / Split No. Style No. Item No. Delivered Qty. Vendor / Vendor No.",
      "Customer / Dept Factory / FID Code" }

\* rows under them: one that gives no Item No. and no Customer, and one that
\* fits each table
TableRows ==
    { "43145156",
      "43145156 906730",
      "ACME CO / 43.1 FACTORY NAME / 028288" }

\* two headers, each with a row under it: a header can come back after a
\* header whose row gave nothing
TableDocuments ==
    { <<h1, r1, h2, r2>> : h1 \in TableHeaders, r1 \in TableRows,
                           h2 \in TableHeaders, r2 \in TableRows }

\* the documents of up to MaxLines lines, and the table documents
Documents ==
    UNION { [1..n -> LinePool] : n \in 0..MaxLines } \cup TableDocuments

RECURSIVE Join(_)
Join(lines) ==
    IF lines = <<>> THEN ""
    ELSE IF Len(lines) = 1 THEN lines[1]
         ELSE lines[1] \o "\n" \o Join(Tail(lines))

Start(files) ==
    /\ uploaded_files = files
    /\ idx = 0
    /\ all_data = <<>>
    /\ errors = <<>>
    /\ pc = "loop"
    /\ calls = <<>>
    /\ last = <<>>
    /\ columns = <<>>
    /\ debug_i = 0

\* a batch of up to MaxFiles files
Init == \E batch \in Batches : Start(MakeFiles(batch))

\* one file of one page of up to MaxLines lines
InitDoc ==
    \E doc \in Documents :
        Start(<<[name |-> FileName(1), exc |-> <<>>, pages |-> <<Page(Join(doc))>>]>>)

\* the keys of the dicts given to create_excel_file on its own: two of
\* required_fields and one that is not
KeyPool == {"Vendor", "File Name", "Remark"}

\* up to MaxKeys different keys in any order of insertion
KeyOrders ==
    { ks \in UNION { [1..n -> KeyPool] : n \in 0..MaxKeys } :
        \A i, j \in 1..Len(ks) : i # j => ks[i] # ks[j] }

Dicts == { [i \in 1..Len(ks) |-> <<ks[i], "x">>] : ks \in KeyOrders }

\* create_excel_file as a function of any list of up to MaxRecords dicts
InitExcel ==
    \E rows \in UNION { [1..n -> Dicts] : n \in 0..MaxRecords } :
        /\ uploaded_files = <<>>
        /\ idx = 0
        /\ all_data = rows
        /\ errors = <<>>
        /\ pc = "returned"
        /\ calls = <<>>
        /\ last = <<>>
        /\ columns = <<>>
        /\ debug_i = 0

Spec == Init /\ [][Next]_vars

SpecExcel == InitExcel /\ [][CreateExcel]_vars

SpecDoc == InitDoc /\ [][Next]_vars

(***************************************************************************)
(* Properties of process_multiple_pdfs, checked under Spec                 *)
(***************************************************************************)
NumFiles == Len(uploaded_files)

NameOf(data) == Get(data, "File Name")

\* the error string starts with the name of file i
ErrorNames(e, i) ==
    LET prefix == uploaded_files[i].name \o ": "
    IN  Len(e) >= Len(prefix) /\ SubSeq(e, 1, Len(prefix)) = prefix

RecordsOf(i) ==
    Cardinality({k \in 1..Len(all_data) : NameOf(all_data[k]) = uploaded_files[i].name})

ErrorsOf(i) == Cardinality({k \in 1..Len(errors) : ErrorNames(errors[k], i)})

Succeeds(i) == ~Truthy(extract_fields_from_pdf(uploaded_files[i]).error)

\* the files among the first n that succeed (ok) or fail (~ok), in input order
Indices(n, ok) == SelectSeq([i \in 1..n |-> i], LAMBDA i : Succeeds(i) = ok)

\* C1 as claimed: process_multiple_pdfs returns an outcome sequence with one
\* entry per input file, the i-th entry being the outcome of the i-th file.
\* The function returns the two sequences all_data and errors.
C1_OneOutcomeSequence ==
    pc = "returned" =>
        \/ /\ Len(all_data) = NumFiles
           /\ \A i \in 1..NumFiles : NameOf(all_data[i]) = uploaded_files[i].name
        \/ /\ Len(errors) = NumFiles
           /\ \A i \in 1..NumFiles : ErrorNames(errors[i], i)

\* C1 as amended: all_data holds the records of exactly the files that
\* succeeded, in input order, and errors holds the error strings of exactly
\* the files that failed, in input order.
C1_TwoOrderedSequences ==
    pc \in {"loop", "returned"} =>
        LET good == Indices(idx, TRUE)
            bad  == Indices(idx, FALSE)
        IN  /\ Len(all_data) = Len(good)
            /\ \A k \in 1..Len(good) :
                  all_data[k] = extract_fields_from_pdf(uploaded_files[good[k]]).data
            /\ Len(errors) = Len(bad)
            /\ \A k \in 1..Len(bad) :
                  errors[k] = uploaded_files[bad[k]].name \o ": "
                                \o extract_fields_from_pdf(uploaded_files[bad[k]]).error[1]

\* a batch of three whose second file fails: the record of the third file is
\* the second entry of all_data
C1_Witness ==
    /\ pc = "returned"
    /\ NumFiles = 3
    /\ Len(errors) = 1
    /\ ErrorNames(errors[1], 2)
    /\ Len(all_data) = 2
    /\ NameOf(all_data[2]) = uploaded_files[3].name

\* C2: a failing file never stops the loop: the loop extracts the files once
\* each in input order (the first idx calls; the debug panel of the script
\* makes its own calls later), the loop is left only when every file has
\* been extracted, and every file extracted by the loop so far has exactly
\* one entry, a record in all_data or an error string starting with its name
\* in errors.
C2_EveryFileOneEntry ==
    /\ Len(calls) >= idx
    /\ SubSeq(calls, 1, idx) = [i \in 1..idx |-> i]
    /\ pc \in {"loop", "returned"} => Len(calls) = idx
    /\ idx <= NumFiles
    /\ pc # "loop" => idx = NumFiles
    /\ Len(all_data) + Len(errors) = idx
    /\ \A i \in 1..NumFiles :
          RecordsOf(i) + ErrorsOf(i) = (IF i <= idx THEN 1 ELSE 0)

\* the first two files of three fail and the third is extracted all the same
C2_Witness ==
    /\ pc = "returned"
    /\ NumFiles = 3
    /\ Len(errors) = 2
    /\ ErrorNames(errors[1], 1)
    /\ ErrorNames(errors[2], 2)
    /\ Len(all_data) = 1
    /\ NameOf(all_data[1]) = uploaded_files[3].name

\* the file opens, no page raises, and every page gives None or whitespace
NoText(pdf_file) ==
    /\ pdf_file.exc = <<>>
    /\ \A p \in 1..Len(pdf_file.pages) :
          /\ pdf_file.pages[p].exc = <<>>
          /\ \/ pdf_file.pages[p].text = <<>>
             \/ \A c \in 1..Len(pdf_file.pages[p].text[1]) :
                   Ch(pdf_file.pages[p].text[1], c) \in Whitespace

\* C3: for a document without text, extract_fields_from_pdf returns an empty
\* dict and a non-empty error message, and the loop adds one entry to errors
\* and nothing to all_data.
C3_NoTextIsFailure ==
    [][(pc = "loop" /\ idx < NumFiles /\ NoText(uploaded_files[idx + 1]) /\ idx' = idx + 1)
         => /\ last'[1].ret.data = <<>>
            /\ Truthy(last'[1].ret.error)
            /\ all_data' = all_data
            /\ errors' = Append(errors, uploaded_files[idx + 1].name \o ": "
                                           \o last'[1].ret.error[1])]_vars

\* a file with pages of blank lines only has been processed
C3_Witness ==
    /\ last # <<>>
    /\ NoText(uploaded_files[last[1].idx])
    /\ \E p \in 1..Len(uploaded_files[last[1].idx].pages) :
          /\ uploaded_files[last[1].idx].pages[p].text # <<>>
          /\ Len(uploaded_files[last[1].idx].pages[p].text[1]) > 2
    /\ errors # <<>>

(***************************************************************************)
(* Properties of extract_fields_from_pdf, checked under SpecDoc on the     *)
(* loop's call, in the state it returns to: L are its lines and D is the   *)
(* dict it returned.  The debug panel's call on the same file returns the  *)
(* same value.                                                             *)
(***************************************************************************)
Ok == pc = "loop" /\ last # <<>> /\ last[1].ret.error = <<>>

L == last[1].lines

D == last[1].ret.data

\* <<the value of key k>>, or <<>> when d has no key k
FieldOf(d, k) == IF Has(d, k) THEN <<Get(d, k)>> ELSE <<>>

\* FieldSchema as the specification declares it, without and with Quality Digit
FieldSchema ==
    <<"Inspection No.", "Inspection Seq.", "Inspection Date", "PO / Split No.",
      "PO Date", "Style No.", "Item No.", "Delivered Quantity", "Customer", "Dept",
      "Factory", "FID Code", "Vendor">>

FieldSchemaExtended == FieldSchema \o <<"Quality Digit">>

PositionIn(fields, k) == CHOOSE i \in 1..Len(fields) : fields[i] = k

\* C4 as claimed: the keys of every Record are exactly the names of
\* FieldSchema, in declared order (the identifying File Name key set aside).
C4_KeysExactlyFieldSchema ==
    Ok => SelectSeq(Keys(D), LAMBDA k : k # "File Name") \in {FieldSchema, FieldSchemaExtended}

\* C4 as amended: the keys of every Record are File Name followed by some of
\* the other names of required_fields, in the order of required_fields;
\* File Name, Inspection Seq. and Quality Digit are always among them, PO
\* Date never is.
C4_KeysFollowRequiredFields ==
    Ok => /\ Keys(D)[1] = "File Name"
          /\ \A i \in 1..Len(D) : \E j \in 1..Len(required_fields) : required_fields[j] = D[i][1]
          /\ \A i, j \in 1..Len(D) :
                i < j => PositionIn(required_fields, D[i][1]) < PositionIn(required_fields, D[j][1])
          /\ Has(D, "Inspection Seq.")
          /\ Has(D, "Quality Digit")
          /\ ~Has(D, "PO Date")

\* a Record with Customer and without Inspection No. and Dept
C4_Witness ==
    /\ Ok
    /\ Has(D, "Customer")
    /\ ~Has(D, "Dept")
    /\ ~Has(D, "Inspection No.")
    /\ Len(D) < Len(required_fields)

CustomerAnchor(lines) ==
    FirstLine({i \in 1..Len(lines) :
                  In("Customer / Dept", lines[i]) /\ In("Factory", lines[i])})

\* C5: the line "ACME CO / 43.1 FACTORY NAME / 028288" after the first line
\* containing "Customer / Dept" and "Factory" yields Customer "ACME CO",
\* Dept "43.1", Factory "FACTORY NAME" and FID Code "028288".
C5_CompositeSplit ==
    (/\ Ok
     /\ CustomerAnchor(L) # 0
     /\ CustomerAnchor(L) + 1 <= Len(L)
     /\ L[CustomerAnchor(L) + 1] = "ACME CO / 43.1 FACTORY NAME / 028288")
    => /\ FieldOf(D, "Customer") = <<"ACME CO">>
       /\ FieldOf(D, "Dept") = <<"43.1">>
       /\ FieldOf(D, "Factory") = <<"FACTORY NAME">>
       /\ FieldOf(D, "FID Code") = <<"028288">>


\* C6 as claimed: every sheet has exactly the columns of FieldSchema, in
\* declared order, whatever keys the Records have.
C6_ColumnsAreFieldSchema ==
    pc = "excel" => columns \in {<<FieldSchema>>, <<FieldSchemaExtended>>}

\* C6 as amended: every sheet has exactly the columns of required_fields
\* (File Name first, no PO Date, Quality Digit last), in that order,
\* whatever keys the Records have and in whatever order.
C6_ColumnsAreRequiredFields ==
    pc = "excel" => /\ columns = <<required_fields>>
                    /\ \A i \in 1..Len(all_data) :
                          \A j \in 1..Len(required_fields) : Has(all_data[i], required_fields[j])

\* a sheet made from two dicts whose first keys are "Remark" and "Vendor"
C6_Witness ==
    /\ pc = "excel"
    /\ Len(all_data) = 2
    /\ Keys(all_data[1])[1] = "Remark"
    /\ Keys(all_data[2])[1] = "Vendor"
    /\ columns # <<>>

StyleAnchor(lines) ==
    FirstLine({i \in 1..Len(lines) :
                  In("Style No.", lines[i]) /\ In("Item No.", lines[i])})

\* the line after the Style/Item header has exactly one token
ItemFails(lines) ==
    /\ StyleAnchor(lines) # 0
    /\ StyleAnchor(lines) + 1 <= Len(lines)
    /\ Len(FindAllRuns(lines[StyleAnchor(lines) + 1], Alnum)) = 1

\* the same document with a second token on that line
WithItemToken(lines) ==
    [lines EXCEPT ![StyleAnchor(lines) + 1] = @ \o " 906730"]

\* the line after the Customer header has a slash and no Dept token after it
DeptFails(lines) ==
    /\ CustomerAnchor(lines) # 0
    /\ CustomerAnchor(lines) + 1 <= Len(lines)
    /\ LET line == lines[CustomerAnchor(lines) + 1]
       IN  /\ Find(line, "/") # -1
           /\ SearchRun(Strip(SliceFrom(line, Find(line, "/") + 1)), DeptChars) = <<>>

\* the same document with a Dept token after the first slash of that line
WithDeptToken(lines) ==
    [lines EXCEPT ![CustomerAnchor(lines) + 1] =
        Slice(@, 0, Find(@, "/") + 1) \o " 43.1 " \o SliceFrom(@, Find(@, "/") + 1)]

\* C7: each field of a composite region is present or absent on its own:
\* Style No. is the same whether or not Item No. is found, and Customer,
\* Factory and FID Code are the same whether or not Dept is found.
C7_FieldsIndependent ==
    Ok => /\ ItemFails(L) =>
                FieldOf(D, "Style No.")
                    = FieldOf(ExtractData("report1.pdf", WithItemToken(L)), "Style No.")
          /\ DeptFails(L) =>
                \A k \in {"Customer", "Factory", "FID Code"} :
                    FieldOf(D, k)
                        = FieldOf(ExtractData("report1.pdf", WithDeptToken(L)), k)

\* the characters of line that are not spaces
NonSpace(line) == {i \in 1..Len(line) : Ch(line, i) # " "}

\* the last three characters of line that are not spaces are digits
EndsInThreeDigits(line) ==
    /\ Cardinality(NonSpace(line)) >= 3
    /\ \A i \in NonSpace(line) :
          Cardinality({j \in NonSpace(line) : j > i}) < 3 => Ch(line, i) \in Digits

NoQualityDigitLine == \A i \in 1..Len(L) : ~In("Quality Digit", L[i])

\* C8 as claimed: a Record of a document without a line containing
\* "Quality Digit" has Quality Digit "753".
C8_DefaultWithoutAnchor ==
    (Ok /\ NoQualityDigitLine) => FieldOf(D, "Quality Digit") = <<"753">>

\* C8 as amended: a Record of a document without a line containing
\* "Quality Digit", and without a line that contains "AQL" and ends in three
\* digits once its spaces are removed, has Quality Digit "753".
C8_DefaultWithoutAnchorAndAQL ==
    (/\ Ok
     /\ NoQualityDigitLine
     /\ \A i \in 1..Len(L) : ~(In("AQL", L[i]) /\ EndsInThreeDigits(L[i])))
    => FieldOf(D, "Quality Digit") = <<"753">>

\* the default given to a document with an AQL line that ends in no digits
C8_Witness ==
    /\ Ok
    /\ NoQualityDigitLine
    /\ \E i \in 1..Len(L) : In("AQL", L[i])
    /\ FieldOf(D, "Quality Digit") = <<"753">>


SeqLabel == "Inspection Seq."

\* <<p, q>>: the label is at 0-based offset p of line, followed by
\* whitespace only up to the digit at 1-based position q
SeqCaptures(line) ==
    UNION { { <<p, q>> : q \in {q \in (p + Len(SeqLabel) + 1)..Len(line) :
                                  /\ \A k \in (p + Len(SeqLabel) + 1)..(q - 1) :
                                        Ch(line, k) \in Whitespace
                                  /\ Ch(line, q) \in Digits} } :
            p \in {p \in 0..(Len(line) - Len(SeqLabel)) :
                      Slice(line, p, p + Len(SeqLabel)) = SeqLabel} }

\* v is the whole run of digits at the leftmost capture of line
IsSeqCapture(line, v) ==
    \E pq \in SeqCaptures(line) :
        /\ \A other \in SeqCaptures(line) : pq[1] <= other[1]
        /\ \E e \in pq[2]..Len(line) :
              /\ \A k \in pq[2]..e : Ch(line, k) \in Digits
              /\ e = Len(line) \/ Ch(line, e + 1) \notin Digits
              /\ v = SubSeq(line, pq[2], e)

SeqAnchor(lines) == FirstLine({i \in 1..Len(lines) : In(SeqLabel, lines[i])})

\* C9: every Record has an Inspection Seq.: the integer that follows the
\* label on the first line containing "Inspection Seq." when there is one,
\* and "1" otherwise; it is never absent or empty.
C9_InspectionSeq ==
    Ok => /\ Has(D, SeqLabel)
          /\ Get(D, SeqLabel) # ""
          /\ IF SeqAnchor(L) # 0 /\ SeqCaptures(L[SeqAnchor(L)]) # {}
             THEN IsSeqCapture(L[SeqAnchor(L)], Get(D, SeqLabel))
             ELSE Get(D, SeqLabel) = "1"

\* the default given to a document whose first label line has no integer
C9_Witness ==
    /\ Ok
    /\ SeqAnchor(L) # 0
    /\ SeqCaptures(L[SeqAnchor(L)]) = {}
    /\ FieldOf(D, SeqLabel) = <<"1">>


\* the lines containing every one of labels
Containing(lines, labels) == {i \in 1..Len(lines) : \A s \in labels : In(s, lines[i])}

\* the first of the lines hits and the line after it: [a |-> the anchor
\* or 0, next |-> <<the line after it>> or <<>>]
AnchorAt(lines, hits) ==
    LET a == IF hits = {} THEN 0 ELSE Min(hits)
    IN  [a |-> a, next |-> IF a # 0 /\ a + 1 <= Len(lines) THEN <<lines[a + 1]>> ELSE <<>>]

\* the distinct last three characters that are not spaces
LastThree(line) ==
    LET clean == RemoveSpaces(line) IN SubSeq(clean, Len(clean) - 2, Len(clean))

\* what lines 234-246 give: the first AQL line ending in three digits, or "753"
AQLOrDefault(lines) ==
    IF \E i \in 1..Len(lines) : In("AQL", lines[i]) /\ EndsInThreeDigits(lines[i])
    THEN LastThree(lines[CHOOSE i \in 1..Len(lines) :
                            /\ In("AQL", lines[i]) /\ EndsInThreeDigits(lines[i])
                            /\ \A j \in 1..(i - 1) :
                                  ~(In("AQL", lines[j]) /\ EndsInThreeDigits(lines[j]))])
    ELSE "753"

\* the Quality Digit label gives no value
QualityDigitAnchorFails(lines) ==
    \A x \in {AnchorAt(lines, Containing(lines, {"Quality Digit"}))} :
        \/ x.next = <<>>
        \/ \A numbers \in {FindAllRuns(RemoveSpaces(x.next[1]), Digits)} :
              numbers = <<>> \/ Len(numbers[Len(numbers)]) < 3

\* <<group(1)>> of a match object, <<>> of None
Group(match) == IF match = <<>> THEN <<>> ELSE <<match[1].g>>

\* the part of a row before its first slash (the whole row without one),
\* stripped
BeforeSlash(row) ==
    Strip(IF Find(row, "/") = -1 THEN row ELSE Slice(row, 0, Find(row, "/")))

\* the nine label scans use their first anchor line only: each field is what
\* the first line containing its label(s) gives, or the line after that one,
\* (FID Code: or the four lines below the row), and is absent (Inspection
\* Seq. "1", Quality Digit the fallback) when they give nothing, whatever
\* anchor lines and rows follow
FirstLabelLineOnly ==
    /\ \A x \in {AnchorAt(L, Containing(L, {"Inspection No."}))} :
          FieldOf(D, "Inspection No.")
              = IF x.a = 0 THEN <<>>
                ELSE Group(SearchLabelRun(L[x.a], "Inspection No.", InspectionNoChars))
    /\ \A x \in {AnchorAt(L, Containing(L, {SeqLabel}))} :
          IF x.a # 0 /\ SeqCaptures(L[x.a]) # {}
          THEN Has(D, SeqLabel) /\ IsSeqCapture(L[x.a], Get(D, SeqLabel))
          ELSE FieldOf(D, SeqLabel) = <<"1">>
    /\ \A x \in {AnchorAt(L, Containing(L, {"Inspection Date"}))} :
          FieldOf(D, "Inspection Date")
              = IF x.a = 0 THEN <<>> ELSE Group(SearchDate(L[x.a]))
    /\ \A x \in {AnchorAt(L, Containing(L, {"PO / Split No."}))} :
          FieldOf(D, "PO / Split No.")
              = IF x.next = <<>> THEN <<>> ELSE Group(SearchRun(x.next[1], Digits))
    /\ \A x \in {AnchorAt(L, Containing(L, {"Style No.", "Item No."}))} :
          \A matches \in {IF x.next = <<>> THEN <<>> ELSE FindAllRuns(x.next[1], Alnum)} :
              /\ FieldOf(D, "Style No.")
                    = IF Len(matches) >= 2 THEN <<matches[1]>> ELSE <<>>
              /\ FieldOf(D, "Item No.")
                    = IF Len(matches) >= 2 THEN <<matches[2]>> ELSE <<>>
    /\ \A x \in {AnchorAt(L, Containing(L, {"Delivered Quantity"})
                              \cup Containing(L, {"Delivered Qty."}))} :
          \A numbers \in {IF x.next = <<>> THEN <<>>
                          ELSE FindAllRuns(RemoveParens(x.next[1]), Digits)} :
              FieldOf(D, "Delivered Quantity")
                  = IF Len(numbers) >= 2 THEN <<numbers[2]>> ELSE <<>>
    /\ \A x \in {AnchorAt(L, Containing(L, {"Customer / Dept", "Factory"}))} :
          IF x.next = <<>> \/ Find(x.next[1], "/") = -1
          THEN \A k \in {"Customer", "Dept", "Factory", "FID Code"} : ~Has(D, k)
          ELSE /\ FieldOf(D, "Customer") = <<BeforeSlash(x.next[1])>>
               /\ \A remaining \in {Strip(SliceFrom(x.next[1], Find(x.next[1], "/") + 1))} :
                  \A dept \in {SearchRun(remaining, DeptChars)} :
                     IF dept = <<>>
                     THEN \A k \in {"Dept", "Factory", "FID Code"} : ~Has(D, k)
                     ELSE \A after_dept \in {Strip(SliceFrom(remaining, dept[1].e))} :
                          /\ FieldOf(D, "Dept") = <<dept[1].g>>
                          /\ FieldOf(D, "Factory") = <<FactoryName(after_dept).name>>
                          /\ FieldOf(D, "FID Code")
                                = FieldOf(FidCode(L, x.a, <<>>, after_dept,
                                                  FactoryName(after_dept).end_pos),
                                          "FID Code")
    /\ \A x \in {AnchorAt(L, Containing(L, {"Vendor", "Vendor No."})
                              \cup Containing(L, {"Vendor", "Vendor No"}))} :
          FieldOf(D, "Vendor")
              = IF x.next = <<>> THEN <<>> ELSE <<BeforeSlash(x.next[1])>>
    /\ \A x \in {AnchorAt(L, Containing(L, {"Quality Digit"}))} :
          \A numbers \in {IF x.next = <<>> THEN <<>>
                          ELSE FindAllRuns(RemoveSpaces(x.next[1]), Digits)} :
              FieldOf(D, "Quality Digit")
                  = IF numbers # <<>> /\ Len(numbers[Len(numbers)]) >= 3
                    THEN <<SubSeq(numbers[Len(numbers)], Len(numbers[Len(numbers)]) - 2,
                                  Len(numbers[Len(numbers)]))>>
                    ELSE <<AQLOrDefault(L)>>

\* the AQL scan uses its first anchor line only
FirstAQLLineOnly ==
    (/\ QualityDigitAnchorFails(L)
     /\ Containing(L, {"AQL"}) # {}
     /\ ~EndsInThreeDigits(L[Min(Containing(L, {"AQL"}))]))
    => FieldOf(D, "Quality Digit") = <<"753">>

\* C10 as claimed: every anchor scan uses the first line containing its
\* label(s) and stops there: when the value pattern does not match at that
\* line, the field is not extracted from a later line that also contains
\* the anchor.
C10_FirstAnchorOnly == Ok => FirstLabelLineOnly /\ FirstAQLLineOnly

\* C10 as amended: the nine label scans use the first line containing their
\* label(s) and stop there, whether or not the value is found; the AQL scan
\* goes on to the first line that contains "AQL" and ends in three digits.
C10_FirstLabelAnchorOnly == Ok => FirstLabelLineOnly

\* a Style/Item header whose row has one token, before the same header
\* with a row of two tokens: neither Style No. nor Item No. is extracted
C10_Witness ==
    /\ Ok
    /\ Len(L) = 4
    /\ \A i \in {1, 3} : In("Style No.", L[i]) /\ In("Item No.", L[i])
    /\ Len(FindAllRuns(L[2], Alnum)) = 1
    /\ Len(FindAllRuns(L[4], Alnum)) = 2
    /\ ~Has(D, "Style No.")
    /\ ~Has(D, "Item No.")

\* s is a string of exactly three decimal digits
ThreeDigits(s) == Len(s) = 3 /\ \A i \in 1..3 : Ch(s, i) \in Digits

\* C11: in every Record returned without error, Quality Digit is present
\* and is a string of exactly three decimal digits, whether it comes from
\* the line after the "Quality Digit" label, from a line containing "AQL",
\* or from the default.
C11_QualityDigitThreeDigits ==
    Ok => Has(D, "Quality Digit") /\ ThreeDigits(Get(D, "Quality Digit"))

\* a Quality Digit cut from a longer number on the line after the label,
\* in a document that also has an AQL line ending in other digits
C11_Witness ==
    /\ Ok
    /\ \E x \in {AnchorAt(L, Containing(L, {"Quality Digit"}))} :
          /\ x.next # <<>>
          /\ \E numbers \in {FindAllRuns(RemoveSpaces(x.next[1]), Digits)} :
                numbers # <<>> /\ Len(numbers[Len(numbers)]) > 3
    /\ FieldOf(D, "Quality Digit") \notin {<<"753">>, <<"651">>}
    /\ \E i \in 1..Len(L) : In("AQL", L[i]) /\ EndsInThreeDigits(L[i])

====
